---- MODULE Spec2Model ----
(***************************************************************************)
(* Model of vrchat-avatar-switcher: the session client (VRChatAPI), the    *)
(* avatar switcher (AvatarSwitcher) and the console loop that drives them. *)
(*                                                                         *)
(* Python strings that the code searches (`in`, `.lower()`) are sequences  *)
(* of one-character strings.  An optional value is a sequence of length 0  *)
(* (None) or 1 (the value).  The remote server and the console user are    *)
(* the environment: every response and every typed line is chosen with \E. *)
(***************************************************************************)
EXTENDS Integers, Sequences, FiniteSets, TLC

\* ------------------------------------------------------------------ bounds
\* Longest favourites list the server returns.
MaxAvatars == 2
\* Deepest nesting of mfa_authentication calling itself on a rejected code.
MaxMfaDepth == 1

\* --------------------------------------------------------- optional values
None == <<>>

Some(x) == <<x>>

\* Python truthiness of an optional string: None and "" are falsy.
Falsy(o) == o = None \/ o[1] = <<>>

\* ------------------------------------------------------------ HTTP statuses
bad_request == 400

unauthorized == 401

forbidden == 403

not_found == 404

\* Statuses the server answers with.  A transport failure is not a status:
\* the request call raises ConnectionError instead of returning.
Statuses == {200, bad_request, unauthorized, forbidden, not_found, 500}

\* requests.Response.ok: raise_for_status() does not raise, i.e. below 400.
Ok(st) == st < 400

\* ------------------------------------------------------------------ strings
\* str.lower() on one character.
LowerChar(c) == CASE c = "A" -> "a" [] c = "B" -> "b" [] OTHER -> c

\* str.lower().
Lower(s) == [i \in 1..Len(s) |-> LowerChar(s[i])]

\* The Python substring test `sub in s`; the empty string is in every string.
In(sub, s) == \E i \in 0..(Len(s) - Len(sub)) : SubSeq(s, i + 1, i + Len(sub)) = sub

\* Line 48 with the two .lower() calls left out.
MatchesCaseSensitive(target_avatar_name, avatar_name) == In(target_avatar_name, avatar_name)

\* Line 48 with the operands of `in` exchanged.
MatchesSwapped(target_avatar_name, avatar_name) == In(Lower(avatar_name), Lower(target_avatar_name))

\* The test of line 48: target_avatar_name.lower() in avatar_name.lower().
Matches(target_avatar_name, avatar_name) == In(Lower(target_avatar_name), Lower(avatar_name))

\* Avatar ids, display names and typed target names.
AvatarIds == {"a1", "a2", "a3"}

AvatarNames == {<<"A", "b">>, <<"b">>}

TargetNames == {<<>>, <<"a">>, <<"B">>, <<"a", "b">>, <<"b", "b">>}

\* Two-step codes a user can type or pass (all non-empty); one of them
\* contains the text "emailotp".
emailotp == <<"e", "m", "a", "i", "l", "o", "t", "p">>

Codes == {<<"1", "2">>, <<"7">> \o emailotp}

\* Values of requiresTwoFactorAuth in a current-user response (absent or
\* empty: no challenge).  The code only tests membership, so a list is a set.
MethodLists == {{}, {"totp"}, {"totp", "emailotp"}, {"emailotp"}, {"otp"}}

\* Credentials passed to authenticate.
Credentials == {None, Some(<<>>), Some(<<"u">>)}

\* ------------------------------------------------------------------ cookies
\* Cookie.expires of a cookie created without an expiry (Python None).
NoneExpires == -1

\* Set-Cookie headers of a successful login response (host-only cookies).
LoginSetCookies ==
    { {},
      {[name |-> "auth", value |-> "t1", expires |-> 10]},
      {[name |-> "auth", value |-> "t2", expires |-> NoneExpires]} }

\* Set-Cookie headers of a successful verification response.
VerifySetCookies ==
    { {}, {[name |-> "twoFactorAuth", value |-> "t1", expires |-> 20]} }

\* Domain of cookies built from a dict, and of cookies the server sets.
DictDomain == ""

ServerDomain == "vrchat.com"

\* CookieJar.set_cookie for the cookies of a response: a cookie replaces the
\* one with the same domain and name.
SetCookies(jar, new) ==
    {c \in jar : ~ \E n \in new : c.domain = ServerDomain /\ c.name = n.name}
    \cup {[domain |-> ServerDomain, name |-> n.name, value |-> n.value,
           expires |-> n.expires] : n \in new}

\* CookieJar iteration groups cookies by domain in insertion order.  Dict
\* cookies only enter by _load_cookies, which replaces the whole jar, so they
\* come before every cookie the server set afterwards.
LastByName(jar, n) ==
    IF \E c \in jar : c.name = n /\ c.domain = ServerDomain
    THEN CHOOSE c \in jar : c.name = n /\ c.domain = ServerDomain
    ELSE CHOOSE c \in jar : c.name = n

FirstByName(jar, n) ==
    IF \E c \in jar : c.name = n /\ c.domain = DictDomain
    THEN CHOOSE c \in jar : c.name = n /\ c.domain = DictDomain
    ELSE CHOOSE c \in jar : c.name = n

\* requests.utils.dict_from_cookiejar: name -> value, later cookies win.
dict_from_cookiejar(jar) ==
    [n \in {c.name : c \in jar} |-> LastByName(jar, n).value]

\* requests.cookies.cookiejar_from_dict: one cookie per key, no expiry.
cookiejar_from_dict(d) ==
    {[domain |-> DictDomain, name |-> n, value |-> d[n], expires |-> NoneExpires] : n \in DOMAIN d}

\* _save_cookies: the new content of the cookie file.
_save_cookies_auth_only(jar) == Some(dict_from_cookiejar({c \in jar : c.name = "auth"}))
_save_cookies(jar) == Some(dict_from_cookiejar(jar))

\* _load_cookies: the session's jar after the call.
_load_cookies_skipped(stored, jar) == jar
_load_cookies(stored, jar) == IF stored = None THEN jar ELSE cookiejar_from_dict(stored[1])

\* log_authentication_cookie_expiration_date: the exception it ends with.
\* [..][0] of no auth cookie is an IndexError, int(None) a TypeError.
log_authentication_cookie_expiration_date(jar) ==
    IF ~ \E c \in jar : c.name = "auth" THEN "IndexError"
    ELSE IF FirstByName(jar, "auth").expires = NoneExpires THEN "TypeError"
    ELSE "none"

\* -------------------------------------------------------------- request log
\* One entry per request the session sent, with the avatar id or the code it
\* carried, and one per write of the cookie file.
Request(req, id, code) == [req |-> req, id |-> id, code |-> code]

Write == Request("_save_cookies", "", <<>>)

\* A line read by input() at the prompt for the login, the password or the
\* two-step code.
Typed(prompt, line) == [prompt |-> prompt, line |-> line]

VARIABLES
    pc,             \* position of the console script
    caller,         \* who called authenticate: "main" (line 29) or "loop" (line 37)
    op,             \* the operation running or last run
    login,          \* parameters of the running basic_authentication call
    password,
    mfa_code,       \* parameter of the running mfa_authentication call
    depth,          \* nesting depth of mfa_authentication
    cookies,        \* session.cookies
    file,           \* content of COOKIES_FILE_PATH
    saved,          \* session.cookies as they were at the last _save_cookies
    avatars_map,    \* the catalog: sequence of [id, name], ids distinct
    target,         \* target_avatar_name of the last switch_avatar_by_name
    examined,       \* catalog entries the last switch_avatar_by_name looked at
    attempts,       \* attempts the last switch_avatar_by_name call took
    response_avatars, \* avatars in the body the code read from the favourites
                    \* response, while get_all_favorite_avatars is the last operation
    requests,       \* requests and file writes of the operation running or last run
    prompts,        \* lines typed at its login, password and code prompts
    validated,      \* status of the reply to the validation of the loaded cookies in
                    \* the last authenticate call, 0 if there was none
    last_status,    \* status of the last response whose status the code read,
                    \* 0 when there is none or the transport failed
    mfa_methods,    \* requiresTwoFactorAuth as the last mfa_authentication call
                    \* read it, {} when it read none
    raised          \* exception the last operation ended with, [type, status]

vars == <<pc, caller, op, login, password, mfa_code, depth, cookies, file, saved,
          avatars_map, target, examined, attempts, response_avatars, requests, prompts,
          validated, last_status, mfa_methods, raised>>

NoError == [type |-> "none", status |-> 0]

Error(type) == [type |-> type, status |-> 0]

HTTPError(st) == [type |-> "HTTPError", status |-> st]

\* raise_for_status() left out: the status is logged and nothing is raised.
raise_for_status_missing(st) == NoError

\* Response.raise_for_status(): the exception it raises, NoError when it
\* returns (lines 80, 83, 116; avatar_switcher line 70).
raise_for_status(st) == IF st >= 400 THEN HTTPError(st) ELSE NoError

Init ==
    /\ pc = "start"
    /\ caller = "main"
    /\ op = "none"
    /\ login = None
    /\ password = None
    /\ mfa_code = None
    /\ depth = 0
    /\ cookies = {}
    /\ file = None
    /\ saved = {}
    /\ avatars_map = <<>>
    /\ target = None
    /\ examined = 0
    /\ attempts = 0
    /\ response_avatars = <<>>
    /\ requests = <<>>
    /\ prompts = <<>>
    /\ validated = 0
    /\ last_status = 0
    /\ mfa_methods = {}
    /\ raised = NoError

\* ------------------------------------------------------------- authenticate
\* An exception that nothing catches ends the process, and the session and
\* the catalog with it; the cookie file stays.
Crash(e) ==
    /\ raised' = e
    /\ pc' = "crashed"
    /\ caller' = "main"
    /\ login' = None
    /\ password' = None
    /\ mfa_code' = None
    /\ depth' = 0
    /\ cookies' = {}
    /\ avatars_map' = <<>>

\* authenticate returns to its caller: line 29 goes on to the favourites,
\* line 37 back to the input loop.
Return ==
    /\ pc' = IF caller = "main" THEN "favorites" ELSE "loop"
    /\ mfa_code' = None
    /\ depth' = 0
    /\ UNCHANGED <<caller, login, password, avatars_map>>

\* A call of authenticate (console_switch line 29 with the configured
\* two-step code, line 37 without one) up to the _load_cookies() of
\* basic_authentication, line 48.
Authenticate(l, p, code) ==
    /\ pc \in {"start", "reauth"}
    /\ login' = l
    /\ password' = p
    /\ mfa_code' = IF pc = "start" THEN code ELSE None
    /\ caller' = IF pc = "start" THEN "main" ELSE "loop"
    /\ op' = "authenticate"
    /\ requests' = <<>>
    /\ last_status' = 0
    /\ mfa_methods' = {}
    /\ raised' = NoError
    /\ depth' = 0
    /\ target' = None
    /\ examined' = 0
    /\ attempts' = 0
    /\ response_avatars' = <<>>
    /\ prompts' = <<>>
    /\ validated' = 0
    /\ cookies' = _load_cookies(file, cookies)
    /\ pc' = "basic_authentication"
    /\ UNCHANGED <<file, saved, avatars_map>>

\* Lines 58-61: the line read by input() is thrown away.
AfterPrompt(value, typed) == value

\* The rest of basic_authentication, lines 49-84.  Its parameters go out of
\* scope when it ends.
BasicAuthentication ==
    /\ pc = "basic_authentication"
    /\ UNCHANGED <<op, target, examined, attempts, response_avatars, mfa_methods>>
    /\ \/ \* validation of the loaded cookies: the transport fails
          /\ cookies # {}
          /\ requests' = Append(requests, Request("get_current_user", "", <<>>))
          /\ last_status' = 0
          /\ validated' = 0
          /\ Crash(Error("ConnectionError"))
          /\ UNCHANGED <<file, saved, prompts>>
       \/ \* the loaded cookies are valid
          /\ cookies # {}
          /\ requests' = Append(requests, Request("get_current_user", "", <<>>))
          /\ \E st \in {s \in Statuses : Ok(s)} : last_status' = st /\ validated' = st
          /\ pc' = "mfa_authentication"
          /\ login' = None
          /\ password' = None
          /\ UNCHANGED <<caller, mfa_code, depth, avatars_map, cookies, file, saved, raised,
                         prompts>>
       \/ \* no cookies, or they have expired: login is needed
          \E validation \in IF cookies = {} THEN {0} ELSE {s \in Statuses : ~ Ok(s)},
             typed_login \in IF Falsy(login) THEN {<<>>, <<"u">>} ELSE {<<>>},
             typed_password \in IF Falsy(password) THEN {<<>>, <<"u">>} ELSE {<<>>} :
            LET l == IF Falsy(login) THEN AfterPrompt(login, Some(typed_login)) ELSE login
                p == IF Falsy(password) THEN AfterPrompt(password, Some(typed_password)) ELSE password
                sent == IF cookies = {} THEN requests
                             ELSE Append(requests, Request("get_current_user", "", <<>>))
            IN  /\ validated' = validation
                /\ prompts' = (IF Falsy(login) THEN <<Typed("Login", typed_login)>> ELSE <<>>)
                              \o (IF Falsy(password) THEN <<Typed("Password", typed_password)>>
                                  ELSE <<>>)
                /\ IF Falsy(l) \/ Falsy(p)
                   THEN /\ requests' = sent
                        /\ last_status' = validation
                        /\ Crash(Error("ValueError"))
                        /\ UNCHANGED <<file, saved>>
                   ELSE \/ /\ requests' = Append(sent, Request("login", "", <<>>))
                           /\ last_status' = 0
                           /\ Crash(Error("ConnectionError"))
                           /\ UNCHANGED <<file, saved>>
                        \/ \E st \in Statuses, set_cookies \in LoginSetCookies :
                             /\ last_status' = st
                             /\ IF Ok(st)
                                THEN LET jar == SetCookies(cookies, set_cookies)
                                         e == log_authentication_cookie_expiration_date(jar)
                                     IN  /\ requests' = sent \o <<Request("login", "", <<>>), Write>>
                                         /\ file' = _save_cookies(jar)
                                         /\ saved' = jar
                                         /\ IF e = "none"
                                            THEN /\ cookies' = jar
                                                 /\ pc' = "mfa_authentication"
                                                 /\ login' = None
                                                 /\ password' = None
                                                 /\ UNCHANGED <<caller, mfa_code, depth,
                                                                avatars_map, raised>>
                                            ELSE Crash(Error(e))
                                ELSE /\ requests' = Append(sent, Request("login", "", <<>>))
                                     /\ UNCHANGED <<file, saved>>
                                     /\ IF raise_for_status(st) = NoError
                                        THEN /\ pc' = "mfa_authentication"
                                             /\ login' = None
                                             /\ password' = None
                                             /\ UNCHANGED <<caller, mfa_code, depth, avatars_map,
                                                            cookies, raised>>
                                        ELSE Crash(raise_for_status(st))

\* Lines 101-104 with the two tests in the other order.
VerifyRequestCodeFirst(methods, code) ==
    IF In(emailotp, code) THEN "verify_emailotp"
    ELSE IF "totp" \in methods THEN "verify_totp"
    ELSE "NotImplementedError"

\* Which verification request mfa_authentication sends (lines 101-106):
\* "totp" is looked up in the advertised methods, "emailotp" in the code.
VerifyRequest(methods, code) ==
    IF "totp" \in methods THEN "verify_totp"
    ELSE IF In(emailotp, code) THEN "verify_emailotp"
    ELSE "NotImplementedError"

\* One invocation of mfa_authentication, lines 91-118.  A rejected code
\* (bad request) makes it call itself without a code.
MfaAuthentication ==
    /\ pc = "mfa_authentication"
    /\ UNCHANGED <<op, target, examined, attempts, response_avatars, validated>>
    /\ \/ \* the transport fails on the current-user query
          /\ requests' = Append(requests, Request("get_current_user", "", <<>>))
          /\ mfa_methods' = {}
          /\ Crash(Error("ConnectionError"))
          /\ UNCHANGED <<file, saved, last_status, prompts>>
       \/ \* the body of the response is not JSON
          /\ requests' = Append(requests, Request("get_current_user", "", <<>>))
          /\ mfa_methods' = {}
          /\ Crash(Error("JSONDecodeError"))
          /\ UNCHANGED <<file, saved, last_status, prompts>>
       \/ \E methods \in MethodLists, typed \in Codes :
            LET query == Append(requests, Request("get_current_user", "", <<>>))
                code == IF Falsy(mfa_code) THEN typed ELSE mfa_code[1]
                verify == VerifyRequest(methods, code)
            IN  /\ mfa_methods' = methods
                /\ prompts' = IF methods # {} /\ Falsy(mfa_code)
                              THEN Append(prompts, Typed("code", typed)) ELSE prompts
                /\ IF methods = {}
                   THEN /\ requests' = query
                        /\ Return
                        /\ UNCHANGED <<cookies, file, saved, raised, last_status>>
                   ELSE IF verify = "NotImplementedError"
                   THEN /\ requests' = query
                        /\ Crash(Error("NotImplementedError"))
                        /\ UNCHANGED <<file, saved, last_status>>
                   ELSE \/ /\ requests' = Append(query, Request(verify, "", code))
                           /\ last_status' = 0
                           /\ Crash(Error("ConnectionError"))
                           /\ UNCHANGED <<file, saved>>
                        \/ \E vst \in Statuses, set_cookies \in VerifySetCookies :
                             /\ last_status' = vst
                             /\ IF Ok(vst)
                                THEN LET jar == SetCookies(cookies, set_cookies)
                                     IN  /\ requests' = query \o <<Request(verify, "", code), Write>>
                                         /\ cookies' = jar
                                         /\ file' = _save_cookies(jar)
                                         /\ saved' = jar
                                         /\ Return
                                         /\ UNCHANGED raised
                                ELSE IF vst = bad_request
                                THEN /\ depth < MaxMfaDepth
                                     /\ requests' = Append(query, Request(verify, "", code))
                                     /\ depth' = depth + 1
                                     /\ mfa_code' = None
                                     /\ UNCHANGED <<pc, caller, login, password, avatars_map,
                                                    cookies, file, saved, raised>>
                                ELSE /\ requests' = Append(query, Request(verify, "", code))
                                     /\ UNCHANGED <<file, saved>>
                                     /\ IF raise_for_status(vst) = NoError
                                        THEN /\ Return
                                             /\ UNCHANGED <<cookies, raised>>
                                        ELSE Crash(raise_for_status(vst))

\* ---------------------------------------------------------- avatar switcher
Avatars == [id : AvatarIds, name : AvatarNames]

\* Bodies of a successful favourites response: lists of avatars.
AvatarLists == UNION {[1..n -> Avatars] : n \in 0..MaxAvatars}

\* avatar_id_name_map[id] = name on an insertion-ordered dict: a new key goes
\* last, a known key keeps its place and takes the new value.
DictSetKeepsFirst(d, id, name) ==
    IF \E i \in 1..Len(d) : d[i].id = id THEN d ELSE Append(d, [id |-> id, name |-> name])
DictSet(d, id, name) ==
    IF \E i \in 1..Len(d) : d[i].id = id
    THEN [i \in 1..Len(d) |-> IF d[i].id = id THEN [id |-> id, name |-> name] ELSE d[i]]
    ELSE Append(d, [id |-> id, name |-> name])

RECURSIVE DictFromList(_, _)
\* The loop of lines 78-79 over the first n avatars of the response.
DictFromList(list, n) ==
    IF n = 0 THEN <<>>
    ELSE DictSet(DictFromList(list, n - 1), list[n].id, list[n].name)

\* get_all_favorite_avatars (console_switch line 31; AVATARS_MAP is empty).
GetAllFavoriteAvatars ==
    /\ pc = "favorites"
    /\ op' = "favorites"
    /\ mfa_methods' = {}
    /\ UNCHANGED <<file, saved, target, examined, attempts>>
    /\ requests' = <<Request("get_avatars", "", <<>>)>>
    /\ prompts' = <<>>
    /\ validated' = 0
    /\ \/ /\ last_status' = 0
          /\ response_avatars' = <<>>
          /\ Crash(Error("ConnectionError"))
       \/ \E st \in Statuses, list \in AvatarLists :
            /\ last_status' = st
            /\ response_avatars' = IF Ok(st) THEN list ELSE <<>>
            /\ avatars_map' = IF Ok(st) THEN DictFromList(list, Len(list)) ELSE <<>>
            /\ pc' = "loop"
            /\ UNCHANGED <<caller, login, password, mfa_code, depth, cookies, raised>>

\* Lines 50-70: what the response to a select request does to the call: it
\* returns or raises (done), or it falls out of the if chain and the for loop
\* goes on to the next entry.
Done(e) == [done |-> TRUE, raised |-> e]

SwitchOutcomeSkipsMissing(st) ==
    IF Ok(st) THEN Done(NoError)
    ELSE IF st \in {not_found, forbidden} THEN [done |-> FALSE, raised |-> NoError]
    ELSE IF st = bad_request THEN Done(Error("AuthenticationRequiredError"))
    ELSE Done(raise_for_status(st))
SwitchOutcome(st) ==
    IF Ok(st) THEN Done(NoError)
    ELSE IF st \in {not_found, forbidden} THEN Done(NoError)
    ELSE IF st = bad_request THEN Done(Error("AuthenticationRequiredError"))
    ELSE IF raise_for_status(st) = NoError THEN [done |-> FALSE, raised |-> NoError]
    ELSE Done(raise_for_status(st))

RECURSIVE Scan(_, _, _)
\* The for loop of lines 47-71 from entry i on: every way it can run, one per
\* choice of responses.  A run is the requests it sent, the status of the
\* last response, the exception it ended with (NoError: return None) and the
\* number of the last entry it looked at.
Scan(map, name, i) ==
    IF i > Len(map)
    THEN {[requests |-> <<>>, last_status |-> 0, examined |-> Len(map),
           raised |-> Error("AvatarNotFoundError")]}
    ELSE IF ~ Matches(name, map[i].name) THEN Scan(map, name, i + 1)
    ELSE LET select == Request("switch_avatar", map[i].id, <<>>)
         IN  {[requests |-> <<select>>, last_status |-> 0, examined |-> i,
               raised |-> Error("ConnectionError")]}
             \cup UNION {
                 IF SwitchOutcome(st).done
                 THEN {[requests |-> <<select>>, last_status |-> st, examined |-> i,
                        raised |-> SwitchOutcome(st).raised]}
                 ELSE {[run EXCEPT !.requests = <<select>> \o @,
                                   !.last_status = IF run.requests = <<>> THEN st ELSE @] :
                         run \in Scan(map, name, i + 1)} : st \in Statuses}

\* console_switch lines 34-39: what the loop does with the exception.
AfterSwitchNoReauth(e) ==
    IF e.type \in {"none", "AvatarNotFoundError", "AuthenticationRequiredError"} THEN "loop"
    ELSE "crashed"
AfterSwitch(e) ==
    IF e.type = "AuthenticationRequiredError" THEN "reauth"
    ELSE IF e.type \in {"none", "AvatarNotFoundError"} THEN "loop"
    ELSE "crashed"

\* Lines 32-37: retry(...) stands above the def as an expression statement,
\* without "@", so the object it builds decorates nothing.
retry_applied == FALSE

\* stop=stop_after_attempt(10) of the retry configuration.
stop_after_attempt == 10

\* retry_if_exception_type(HTTPError), line 33, with the HTTPError of
\* urllib.error (line 4); raise_for_status raises the HTTPError of requests.
RetriedHTTPStatus(e) == e.type = "HTTPError"
Retried(e) == retry_applied /\ e.type = "urllib.error.HTTPError"

\* Lines 45-71, one attempt: every way it can run.
Attempt(map, name) ==
    IF name = None
    THEN {[requests |-> <<>>, last_status |-> 0, examined |-> 0,
           raised |-> Error("AvatarNotFoundError")]}
    ELSE Scan(map, name[1], 1)

RECURSIVE Attempts(_, _, _)
\* A call from its n-th attempt on: an attempt that ends in a retried
\* exception is followed by another one, up to stop_after_attempt.
Attempts(map, name, n) ==
    UNION {IF Retried(run.raised) /\ n < stop_after_attempt
           THEN {[call EXCEPT !.requests = run.requests \o @] :
                   call \in Attempts(map, name, n + 1)}
           ELSE {[requests |-> run.requests, last_status |-> run.last_status,
                  examined |-> run.examined, raised |-> run.raised, attempts |-> n]} :
             run \in Attempt(map, name)}

\* switch_avatar_by_name(avatars_map, name), one call.  The console passes the
\* typed line; None comes from other callers of the method.
SwitchAvatarByName(name) ==
    /\ pc = "loop"
    /\ op' = "switch"
    /\ target' = name
    /\ mfa_methods' = {}
    /\ response_avatars' = <<>>
    /\ prompts' = <<>>
    /\ validated' = 0
    /\ UNCHANGED <<file, saved>>
    /\ \E call \in Attempts(avatars_map, name, 1) :
         /\ requests' = call.requests
         /\ last_status' = call.last_status
         /\ examined' = call.examined
         /\ attempts' = call.attempts
         /\ IF AfterSwitch(call.raised) = "crashed"
            THEN Crash(call.raised)
            ELSE /\ raised' = call.raised
                 /\ pc' = AfterSwitch(call.raised)
                 /\ UNCHANGED <<caller, login, password, mfa_code, depth, cookies,
                                avatars_map>>

\* The script is started again: a new VRChatAPI with an empty session; only
\* the cookie file outlives the process.
Restart ==
    /\ pc \in {"crashed", "loop"}
    /\ pc' = "start"
    /\ caller' = "main"
    /\ op' = "none"
    /\ login' = None
    /\ password' = None
    /\ mfa_code' = None
    /\ depth' = 0
    /\ cookies' = {}
    /\ avatars_map' = <<>>
    /\ target' = None
    /\ examined' = 0
    /\ attempts' = 0
    /\ response_avatars' = <<>>
    /\ requests' = <<>>
    /\ prompts' = <<>>
    /\ validated' = 0
    /\ last_status' = 0
    /\ mfa_methods' = {}
    /\ raised' = NoError
    /\ UNCHANGED <<file, saved>>

Next ==
    \/ \E l \in Credentials, p \in Credentials,
          code \in {None, Some(<<>>)} \cup {Some(c) : c \in Codes} : Authenticate(l, p, code)
    \/ BasicAuthentication
    \/ MfaAuthentication
    \/ GetAllFavoriteAvatars
    \/ \E name \in {None} \cup {Some(t) : t \in TargetNames} : SwitchAvatarByName(name)
    \/ Restart

Spec == Init /\ [][Next]_vars

\* ------------------------------------------------------------------ claims
\* t occurs in n when case is ignored, for a non-empty t: some window of n
\* agrees with t letter by letter.
CaseInsensitiveIn(t, n) ==
    \E i \in 1..(Len(n) - Len(t) + 1) :
        \A k \in 1..Len(t) : LowerChar(n[i + k - 1]) = LowerChar(t[k])

\* A step that is one call of switch_avatar_by_name with a non-empty name.
SwitchCall == pc = "loop" /\ op' = "switch" /\ target' # None /\ target'[1] # <<>>

SelectOf(i) == Request("switch_avatar", avatars_map[i].id, <<>>)

\* C1: when some catalog name contains the non-empty target case-insensitively,
\* switch_avatar_by_name sends its select request for the first such entry in
\* catalog order, for no other entry, and returns normally when the request
\* succeeds.
C1_FirstMatchSelected ==
    [][(SwitchCall /\ \E i \in 1..Len(avatars_map) :
                        CaseInsensitiveIn(target'[1], avatars_map[i].name))
       => \E m \in 1..Len(avatars_map) :
            /\ CaseInsensitiveIn(target'[1], avatars_map[m].name)
            /\ \A j \in 1..(m - 1) : ~ CaseInsensitiveIn(target'[1], avatars_map[j].name)
            /\ requests' # <<>>
            /\ \A k \in 1..Len(requests') : requests'[k] = SelectOf(m)
            /\ (last_status' # 0 /\ Ok(last_status')) => (raised' = NoError /\ pc' = "loop")]_vars

\* A successful switch whose target matches the second entry only, and only
\* when case is ignored.
C1_Witness ==
    /\ pc = "loop" /\ op = "switch" /\ raised = NoError /\ last_status = 200
    /\ target # None /\ target[1] # <<>>
    /\ Len(avatars_map) >= 2
    /\ ~ CaseInsensitiveIn(target[1], avatars_map[1].name)
    /\ CaseInsensitiveIn(target[1], avatars_map[2].name)
    /\ ~ In(target[1], avatars_map[2].name)
    /\ requests = <<SelectOf(2)>>

\* C2: switch_avatar_by_name called with None or with the empty string fails
\* with AvatarNotFoundError and sends no select request, whatever the catalog.
C2_EmptyTargetRejected ==
    (op = "switch" /\ (target = None \/ target = Some(<<>>)))
    => (raised = Error("AvatarNotFoundError") /\ requests = <<>>)

\* C3: when no catalog name contains the non-empty target case-insensitively,
\* switch_avatar_by_name looks at every entry, sends no select request and
\* fails with AvatarNotFoundError.
C3_NoMatchNotFound ==
    [][(SwitchCall /\ \A i \in 1..Len(avatars_map) :
                        ~ CaseInsensitiveIn(target'[1], avatars_map[i].name))
       => /\ examined' = Len(avatars_map)
          /\ requests' = <<>>
          /\ raised' = Error("AvatarNotFoundError")]_vars

\* A failed lookup over a catalog of two entries, one of them contained in
\* the target.
C3_Witness ==
    /\ pc = "loop" /\ op = "switch" /\ raised = Error("AvatarNotFoundError")
    /\ target # None /\ target[1] # <<>>
    /\ Len(avatars_map) = 2 /\ examined = 2 /\ requests = <<>>
    /\ \A i \in 1..2 : ~ CaseInsensitiveIn(target[1], avatars_map[i].name)
    /\ \E i \in 1..2 : In(Lower(avatars_map[i].name), Lower(target[1]))

\* C4: a transport failure of the select request is retried; it reaches the
\* caller only when all 10 attempts have failed.
C4_TransportFailureRetried ==
    (op = "switch" /\ raised = Error("ConnectionError")) => Len(requests) = stop_after_attempt

\* C5: a bad-request or unauthorized response to the select request makes
\* switch_avatar_by_name fail with AuthenticationRequiredError.
C5_AuthenticationRequired ==
    (op = "switch" /\ Len(requests) = 1 /\ last_status \in {bad_request, unauthorized})
    => raised = Error("AuthenticationRequiredError")

\* C6: when the login request is answered forbidden, authenticate ends there
\* by raising the error of that response: the login is the last request, no
\* verification request is sent and the cookie file is not written.
C6_ForbiddenLoginFails ==
    [][(/\ pc = "basic_authentication"
        /\ last_status' = forbidden
        /\ \E i \in 1..Len(requests') : requests'[i].req = "login")
       => /\ pc' = "crashed"
          /\ raised' = HTTPError(forbidden)
          /\ requests'[Len(requests')].req = "login"
          /\ \A i \in 1..Len(requests') :
                requests'[i].req \notin {"verify_totp", "verify_emailotp", "_save_cookies"}
          /\ file' = file]_vars

\* A stored session failed validation and the login was then forbidden.
C6_Witness ==
    /\ pc = "crashed" /\ op = "authenticate" /\ raised = HTTPError(forbidden)
    /\ file # None
    /\ Len(requests) = 2
    /\ requests[1].req = "get_current_user"
    /\ requests[2].req = "login"

\* The last current-user query of the request log is at i and the request
\* after it is req.
QueryThen(i, req) ==
    /\ i \in 1..(Len(requests) - 1)
    /\ requests[i].req = "get_current_user"
    /\ \A j \in (i + 1)..Len(requests) : requests[j].req # "get_current_user"
    /\ requests[i + 1].req = req

\* C7: when the advertised methods contain "totp", mfa_authentication submits
\* the code with the TOTP verification request and not with the email one.
C7_TotpPreferred ==
    (op = "authenticate" /\ "totp" \in mfa_methods)
    => \E i \in 1..Len(requests) :
          /\ QueryThen(i, "verify_totp")
          /\ \A j \in (i + 1)..Len(requests) : requests[j].req # "verify_emailotp"

\* Both methods advertised and a code that contains the text "emailotp":
\* accepted through the TOTP request.
C7_Witness ==
    /\ op = "authenticate" /\ mfa_methods = {"totp", "emailotp"}
    /\ raised = NoError /\ pc \in {"favorites", "loop"}
    /\ \E i \in 1..Len(requests) :
          /\ QueryThen(i, "verify_totp")
          /\ In(emailotp, requests[i + 1].code)
          /\ Len(requests) = i + 2
          /\ requests[i + 2] = Write

\* C8: when the advertised methods contain "emailotp" and not "totp",
\* mfa_authentication submits the code, whatever it is, with the email-code
\* verification request.
C8_EmailCodeSubmitted ==
    (op = "authenticate" /\ "emailotp" \in mfa_methods /\ "totp" \notin mfa_methods)
    => \E i \in 1..Len(requests) : QueryThen(i, "verify_emailotp")

\* C9: when the advertised methods contain neither "totp" nor "emailotp",
\* mfa_authentication fails with the unsupported-method error whatever the
\* code, right after the current-user query: no verification request, no
\* write of the cookie file.
C9_UnsupportedMethod ==
    (op = "authenticate" /\ mfa_methods # {} /\ mfa_methods \cap {"totp", "emailotp"} = {})
    => /\ raised = Error("NotImplementedError")
       /\ requests[Len(requests)].req = "get_current_user"

\* C10: after a jar holding an authentication cookie was saved, a new client
\* that loads the cookie file has cookies, among them an authentication cookie
\* with the value and the expiration of a saved one.
C10_CookieRoundTrip ==
    (pc = "basic_authentication" /\ caller = "main" /\ \E c \in saved : c.name = "auth")
    => /\ cookies # {}
       /\ \E c \in cookies, c0 \in saved :
             /\ c.name = "auth" /\ c0.name = "auth"
             /\ c.value = c0.value
             /\ c.expires = c0.expires


\* ------------------------------------------------------------ claims C11-C20
AuthenticateReturned == op = "authenticate" /\ pc \in {"favorites", "loop"}

VerifyRequests == {"verify_totp", "verify_emailotp"}

\* The cookie file holds the names of the jar's cookies, each with the value
\* of the cookie the session would send under that name.
StoreHolds(jar) ==
    /\ file # None
    /\ DOMAIN file[1] = {c.name : c \in jar}
    /\ \A c \in jar :
         (c.domain = ServerDomain \/ \A d \in jar : d.name = c.name => d.domain = c.domain)
            => file[1][c.name] = c.value

HasLogin(log) == \E i \in 1..Len(log) : log[i].req = "login"

\* C12: when the login is needed (a credential was prompted for or the login
\* request went out), basic_authentication raises the credentials-missing
\* ValueError exactly when a prompted credential was left empty; a credential
\* typed non-empty at its prompt is used, so the login request is issued
\* exactly when none was left empty.
C12_TypedCredentialsUsed ==
    [][(pc = "basic_authentication" /\ (prompts' # <<>> \/ HasLogin(requests')))
          => LET still_empty == \E i \in 1..Len(prompts') : prompts'[i].line = <<>>
             IN  /\ (raised'.type = "ValueError") <=> still_empty
                 /\ HasLogin(requests') <=> ~ still_empty]_vars

\* C13: basic_authentication has sent nothing when the store has been read
\* (the session then holds the stored cookies); when the current-user request
\* that validates them succeeds, the call ends without a login request and
\* without an error whatever the credentials; and no call sends more than one
\* login request.
C13_StoreFirstOneLogin ==
    [][pc = "basic_authentication"
          => /\ requests = <<>>
             /\ file # None =>
                  cookies = {[domain |-> DictDomain, name |-> n, value |-> file[1][n],
                              expires |-> NoneExpires] : n \in DOMAIN file[1]}
             /\ (validated' # 0 /\ Ok(validated'))
                  => /\ ~ HasLogin(requests')
                     /\ raised' = NoError
                     /\ pc' = "mfa_authentication"
             /\ Cardinality({i \in 1..Len(requests') : requests'[i].req = "login"}) <= 1]_vars

C13_Witness ==
    /\ pc = "mfa_authentication"
    /\ validated = 200
    /\ requests = <<Request("get_current_user", "", <<>>)>>
    /\ raised = NoError
    /\ file # None /\ cookies # {}

\* The positions of id in a list of avatars.
Positions(list, id) == {i \in 1..Len(list) : list[i].id = id}

Max(S) == CHOOSE x \in S : \A y \in S : y <= x

Min(S) == CHOOSE x \in S : \A y \in S : x <= y

\* C14: once the favourites request has been answered with a status,
\* get_all_favorite_avatars has returned without an exception: an empty catalog
\* for a status that is not a success, and for a success one entry per id of
\* the returned avatars, in the order the ids first come, each with the name
\* the response gives that id last.
C14_CatalogOfResponse ==
    (op = "favorites" /\ last_status # 0)
       => /\ raised = NoError
          /\ pc = "loop"
          /\ IF last_status >= 400 THEN avatars_map = <<>>
             ELSE /\ {avatars_map[k].id : k \in 1..Len(avatars_map)}
                        = {response_avatars[i].id : i \in 1..Len(response_avatars)}
                  /\ \A j, k \in 1..Len(avatars_map) :
                        j < k => Min(Positions(response_avatars, avatars_map[j].id))
                                    < Min(Positions(response_avatars, avatars_map[k].id))
                  /\ \A k \in 1..Len(avatars_map) :
                        avatars_map[k].name =
                           response_avatars[Max(Positions(response_avatars, avatars_map[k].id))].name

C14_Witness ==
    /\ op = "favorites" /\ last_status = 200
    /\ Len(response_avatars) = 2 /\ Len(avatars_map) = 1
    /\ response_avatars[1].name # response_avatars[2].name
    /\ avatars_map[1] = response_avatars[2]

\* C15: a switch of the console loop that raises AuthenticationRequiredError
\* is followed by a call of authenticate, and when that call returns the loop
\* reads input again with the catalog it had; one that raises
\* AvatarNotFoundError leaves the loop reading input with session, cookie file
\* and catalog unchanged; any other exception of the switch ends the run.
C15_LoopHandlers ==
    [][/\ (pc = "loop" /\ op' = "switch")
            => /\ raised'.type = "AuthenticationRequiredError" => pc' = "reauth"
               /\ raised'.type = "AvatarNotFoundError"
                    => pc' = "loop" /\ cookies' = cookies /\ file' = file
               /\ raised'.type \notin {"none", "AuthenticationRequiredError",
                                       "AvatarNotFoundError"} => pc' = "crashed"
               /\ pc' # "crashed" => avatars_map' = avatars_map
       /\ pc = "reauth"
            => /\ pc' = "basic_authentication" /\ op' = "authenticate" /\ caller' = "loop"
               /\ mfa_code' = None
               /\ avatars_map' = avatars_map
       /\ (caller = "loop" /\ pc \in {"basic_authentication", "mfa_authentication"}
             /\ pc' \notin {"basic_authentication", "mfa_authentication", "crashed"})
            => pc' = "loop" /\ avatars_map' = avatars_map]_vars

C15_Witness ==
    /\ pc = "loop" /\ op = "authenticate" /\ caller = "loop"
    /\ raised = NoError
    /\ avatars_map # <<>>

\* C16: a switch_avatar_by_name call sends at most one select request; when
\* the reply is not-found or forbidden the call has returned without an
\* exception (and sent nothing for a later matching entry), and on any other
\* status that is not a success it has raised.
C16_FirstMatchFinal ==
    op = "switch"
       => /\ Len(requests) <= 1
          /\ \A i \in 1..Len(requests) : requests[i].req = "switch_avatar"
          /\ last_status \in {not_found, forbidden} => raised = NoError /\ pc = "loop"
          /\ (last_status >= 400 /\ last_status \notin {not_found, forbidden})
                => raised # NoError /\ pc \in {"reauth", "crashed"}

C16_Witness ==
    /\ op = "switch" /\ pc = "loop" /\ raised = NoError
    /\ last_status = not_found
    /\ Len(avatars_map) = 2
    /\ \A i \in 1..2 : CaseInsensitiveIn(target[1], avatars_map[i].name)
    /\ requests = <<Request("switch_avatar", avatars_map[1].id, <<>>)>>

\* C17: a switch_avatar_by_name call that ends in anything but a transport
\* failure took one attempt, and the caller sees the outcome of that attempt:
\* AvatarNotFoundError when nothing was sent, a normal return for a success, a
\* not-found or a forbidden reply, AuthenticationRequiredError for a bad
\* request, and the HTTP error of the status otherwise.
C17_ClassifiedNotRetried ==
    (op = "switch" /\ raised.type # "ConnectionError")
       => /\ attempts = 1
          /\ Len(requests) <= 1
          /\ raised = IF requests = <<>> THEN [type |-> "AvatarNotFoundError", status |-> 0]
                      ELSE IF last_status < 400 \/ last_status \in {not_found, forbidden}
                      THEN [type |-> "none", status |-> 0]
                      ELSE IF last_status = bad_request
                      THEN [type |-> "AuthenticationRequiredError", status |-> 0]
                      ELSE [type |-> "HTTPError", status |-> last_status]

C17_Witness ==
    /\ op = "switch" /\ pc = "crashed"
    /\ raised.type = "HTTPError"
    /\ attempts = 1
    /\ Len(requests) = 1

\* The mfa_authentication step has submitted a code.
Submitted == 
    /\ Len(requests') >= Len(requests) + 2
    /\ requests'[Len(requests) + 2].req \in VerifyRequests

\* C18: in an mfa_authentication that follows a rejection, while the server
\* still asks for a method the client knows, a code is read at the prompt and
\* that code is submitted; a submission answered with bad request leaves the
\* client pending with no code kept, no cookie written and nothing raised; an
\* accepted one writes the cookies and ends the call; any other status raises.
C18_RejectionPromptsAndResubmits ==
    [][pc = "mfa_authentication"
          => /\ (depth > 0 /\ mfa_methods' \cap {"totp", "emailotp"} # {})
                  => /\ Len(prompts') = Len(prompts) + 1
                     /\ Submitted
                     /\ requests'[Len(requests) + 2].code = prompts'[Len(prompts')].line
             /\ (Submitted /\ raised'.type # "ConnectionError")
                  => IF last_status' = bad_request
                     THEN /\ pc' = "mfa_authentication" /\ raised' = NoError
                          /\ mfa_code' = None
                          /\ file' = file /\ cookies' = cookies
                          /\ Len(requests') = Len(requests) + 2
                     ELSE IF last_status' < 400
                     THEN /\ requests'[Len(requests')] = Write
                          /\ StoreHolds(cookies)'
                          /\ pc' \in {"favorites", "loop"}
                     ELSE /\ pc' = "crashed"
                          /\ raised' = [type |-> "HTTPError", status |-> last_status']]_vars

\* The code submissions of the authenticate call running or last run.
Submissions == Cardinality({i \in 1..Len(requests) : requests[i].req \in VerifyRequests})

\* C19: the code submissions of one authenticate call are bounded by a
\* maximum attempt count.  The program names no such count; the formula takes
\* the largest one this model can tell from none, MaxMfaDepth, the number of
\* rejections the model follows: a call whose codes were rejected that often
\* would submit no further code.  A violation refutes every smaller count too.
C19_SubmissionsBounded ==
    op = "authenticate" => Submissions <= MaxMfaDepth

\* C20: in every state the session holds no cookies or holds an
\* authentication cookie with an expiration (there is no clock here; a cookie
\* without an expiration has no future one).
C20_SessionInvariant ==
    cookies = {} \/ \E c \in cookies : c.name = "auth" /\ c.expires # NoneExpires

====
